---- MODULE Spec2Model ----
(***************************************************************************)
(* MiTempBtPoller (src/mitemp_bt/__init__.py): the cache / refresh policy  *)
(* of the Mi Temp sensor poller.                                           *)
(*                                                                         *)
(* Time is in seconds.  A Python Optional is a sequence: <<>> is None and  *)
(* <<v>> is the value v.  A byte string or a text is a sequence of         *)
(* one-character strings; the characters that TLA+ cannot write are named  *)
(* "NUL" (0x00), "SOH" (0x01), "LF" (0x0a), "TAB" (0x09) and "xAA" (the    *)
(* byte 0xaa, which no UTF-8 text may start with).  A float is the exact   *)
(* decimal [m |-> mantissa, e |-> number of fraction digits]; the payloads *)
(* have at most five digits, far below the 15 a double keeps exactly.      *)
(* A call is one step: the clock does not advance inside it (the longest   *)
(* wait of a call is ble_timeout = 10 seconds).                            *)
(*                                                                         *)
(* Spec is the poller called by one thread, SpecParse is _parse_data()     *)
(* applied to payloads built from their items, and SpecThreads is the      *)
(* poller called by several threads at once, with fill_cache() in steps.   *)
(***************************************************************************)
EXTENDS Integers, Sequences, FiniteSets, TLC

\* ------------------------------------------------------------- constants

\* timedelta(seconds=300): the retry delay after a failed read
RetryDelay == 300

\* timedelta(hours=24): the firmware / battery refresh period
FwMaxAge == 86400

\* cache_timeout=600: the constructor's default
DefaultCacheTimeout == 600

\* the humidity above which _check_data wipes the cache
MaxHumidity == 100

\* ----------------------------------------------------------------- bounds

\* a payload ends in at most MaxPad NUL bytes
MaxPad == 1

\* the threads that call the poller at once
MaxThreads == 2

\* the calls are made at k * RetryDelay, k <= MaxTick, and a day later
MaxTick == 2

\* cache_timeout (constructor argument) is k * DefaultCacheTimeout, k <= MaxTimeoutSteps
MaxTimeoutSteps == 1

\* ------------------------------------------------------- Python's values

None == <<>>

Some(v) == <<v>>

\* the members of the Enum MiTempParameter
MiTempParameter == {"TEMPERATURE", "HUMIDITY", "BATTERY"}

\* MiTempParameter.<name>: the member, or AttributeError for a name the Enum lacks
MiTempParameterAttr(name) ==
    IF name \in MiTempParameter THEN [exc |-> "", member |-> name]
    ELSE [exc |-> "AttributeError", member |-> ""]

Digits == {"0", "1", "2", "3", "4", "5", "6", "7", "8", "9"}

DigitVal(c) ==
    CASE c = "0" -> 0 [] c = "1" -> 1 [] c = "2" -> 2 [] c = "3" -> 3 [] c = "4" -> 4
      [] c = "5" -> 5 [] c = "6" -> 6 [] c = "7" -> 7 [] c = "8" -> 8 [] c = "9" -> 9

\* bytes that cannot appear in UTF-8 text on their own
InvalidUtf8 == {"xAA"}

\* bytes.decode("utf-8"): the text, or UnicodeDecodeError
Utf8Decode(raw) ==
    IF \E i \in 1..Len(raw) : raw[i] \in InvalidUtf8
    THEN [exc |-> "UnicodeDecodeError", text |-> <<>>]
    ELSE [exc |-> "", text |-> raw]

\* IsPrintable with every character taken as printable
IsPrintableAlways(c) == TRUE

\* str.isprintable() of one character
IsPrintable(c) == c \notin {"NUL", "SOH", "LF", "TAB"}

RECURSIVE StripLeft(_, _)
StripLeft(s, chars) ==
    IF s # <<>> /\ Head(s) \in chars THEN StripLeft(Tail(s), chars) ELSE s

RECURSIVE StripRight(_, _)
StripRight(s, chars) ==
    IF s # <<>> /\ s[Len(s)] \in chars
    THEN StripRight(SubSeq(s, 1, Len(s) - 1), chars) ELSE s

\* str.strip(chars)
Strip(s, chars) == StripRight(StripLeft(s, chars), chars)

\* "".join(filter(pred, s))
RECURSIVE FilterPrintable(_)
FilterPrintable(s) ==
    IF s = <<>> THEN <<>>
    ELSE IF IsPrintable(Head(s)) THEN <<Head(s)>> \o FilterPrintable(Tail(s))
    ELSE FilterPrintable(Tail(s))

\* str.split(sep) for a one-character sep: always at least one piece
RECURSIVE Split(_, _)
Split(s, sep) ==
    IF \A i \in 1..Len(s) : s[i] # sep THEN <<s>>
    ELSE LET k == CHOOSE i \in 1..Len(s) : s[i] = sep /\ \A j \in 1..(i - 1) : s[j] # sep
         IN  <<SubSeq(s, 1, k - 1)>> \o Split(SubSeq(s, k + 1, Len(s)), sep)

RECURSIVE Pow10(_)
Pow10(n) == IF n = 0 THEN 1 ELSE 10 * Pow10(n - 1)

RECURSIVE DigitsVal(_)
DigitsVal(s) == IF s = <<>> THEN 0 ELSE 10 * DigitsVal(SubSeq(s, 1, Len(s) - 1)) + DigitVal(s[Len(s)])

AllDigits(s) == \A i \in 1..Len(s) : s[i] \in Digits

\* float(text) for a text of digits, sign and point: the decimal, or ValueError
Float(text) ==
    LET signed == text # <<>> /\ Head(text) \in {"-", "+"}
        body   == IF signed THEN Tail(text) ELSE text
        parts  == Split(body, ".")
        int    == parts[1]
        frac   == IF Len(parts) = 2 THEN parts[2] ELSE <<>>
        ok     == /\ Len(parts) <= 2
                  /\ AllDigits(int) /\ AllDigits(frac)
                  /\ Len(int) + Len(frac) > 0
        mag    == DigitsVal(int \o frac)
    IN  IF ok
        THEN [exc |-> "", val |-> [m |-> IF signed /\ Head(text) = "-" THEN 0 - mag ELSE mag,
                                   e |-> Len(frac)]]
        ELSE [exc |-> "ValueError", val |-> [m |-> 0, e |-> 0]]

\* x > n for a decimal x and an integer n
FloatGt(x, n) == x.m > n * Pow10(x.e)

\* x < n for a decimal x and an integer n
FloatLt(x, n) == x.m < n * Pow10(x.e)

\* x = y for two decimals
FloatEq(x, y) == x.m * Pow10(y.e) = y.m * Pow10(x.e)

\* a dict with key k set to v
DictSet(d, k, v) == [x \in DOMAIN d \cup {k} |-> IF x = k THEN v ELSE d[x]]

EmptyDict == [x \in {} |-> 0]

\* ------------------------------------------------------- the poller state

\* the calls' times
TimePoints ==
    {k * RetryDelay : k \in 0..MaxTick} \cup {FwMaxAge, FwMaxAge + RetryDelay}

\* the cache_timeout values a poller is constructed with
CacheTimeouts == {k * DefaultCacheTimeout : k \in 0..MaxTimeoutSteps}

\* what an operation leaves: the poller, the exception raised ("" for none), the
\* value returned, the connections opened, the fill_cache calls made, and the
\* outcome of wait_for_notification when it was reached
Res(s, exc, value, conns, refreshes, notif) ==
    [s |-> s, exc |-> exc, value |-> value, conns |-> conns,
     refreshes |-> refreshes, notif |-> notif]

\* __init__
NewPoller(cache_timeout) ==
    [_cache |-> None, _cache_timeout |-> cache_timeout, _last_read |-> None,
     _fw_last_read |-> None, _firmware_version |-> None, battery |-> None]

\* ---------------------------------------------------------- the decoding

\* one "key=value" item of the payload, added to the result built so far
ParseItem(acc, dataitem) ==
    LET dataparts == Split(dataitem, "=")
        key == IF dataparts[1] = <<"T">> THEN "TEMPERATURE"
               ELSE IF dataparts[1] = <<"H">> THEN "HUMIDITY" ELSE ""
    IN  IF acc.exc # "" \/ key = "" THEN acc
        ELSE IF Len(dataparts) < 2 THEN [acc EXCEPT !.exc = "IndexError"]
        ELSE LET f == Float(dataparts[2])
             IN  IF f.exc # "" THEN [acc EXCEPT !.exc = f.exc]
                 ELSE [acc EXCEPT !.res = DictSet(acc.res, key, f.val)]

RECURSIVE ParseItems(_, _)
ParseItems(acc, items) ==
    IF items = <<>> THEN acc ELSE ParseItems(ParseItem(acc, Head(items)), Tail(items))

\* _parse_data on the cached text: the dict of the parameters found, or the exception
_parse_data(cache) ==
    LET data == FilterPrintable(Strip(cache, {"NUL"}))
    IN  ParseItems([exc |-> "", res |-> EmptyDict], Split(data, " "))

\* the payloads the sensor may notify
T_OK == <<"T", "=", "2", "5", ".", "6", " ", "H", "=", "2", "3", ".", "6", "NUL">>

T_HUM_OVER == <<"T", "=", "5", " ", "H", "=", "1", "0", "0", ".", "1">>

T_HUM_NEG == <<"T", "=", "-", "5", " ", "H", "=", "-", "1">>

T_NO_H == <<"T", "=", "5">>

T_NO_T == <<"H", "=", "1", "5", "0">>

T_INVALID == <<"xAA">>

Payloads == {T_OK, T_HUM_OVER, T_HUM_NEG, T_NO_H, T_NO_T, T_INVALID}

\* the texts handleNotification can store, each with what _parse_data makes of it
CacheTexts == {Strip(Utf8Decode(p).text, {" ", "LF", "TAB"}) : p \in Payloads}

ParsedData[cache \in CacheTexts] == _parse_data(cache)

cache_available(s) == s._cache # None

clear_cache(s) == [s EXCEPT !._cache = None, !._last_read = None]

\* _check_data: wipes a cache whose humidity is over 100
_check_data(s) ==
    IF ~cache_available(s) THEN [s |-> s, exc |-> ""]
    ELSE LET parsed == ParsedData[s._cache[1]]
         IN  IF parsed.exc # "" THEN [s |-> s, exc |-> parsed.exc]
             ELSE IF "TEMPERATURE" \notin DOMAIN parsed.res \/ "HUMIDITY" \notin DOMAIN parsed.res
             THEN [s |-> s, exc |-> "KeyError"]
             ELSE IF FloatGt(parsed.res["HUMIDITY"], MaxHumidity)
             THEN [s |-> clear_cache(s), exc |-> ""]
             ELSE [s |-> s, exc |-> ""]

\* StampRead with the time of the read stamped whether or not a cache is left
StampReadAlwaysNow(c, t) ==
    IF c.exc # "" THEN c
    ELSE [c EXCEPT !.s._last_read = Some(t)]

\* the end of handleNotification: the stamp of a read that left a cache (c, after
\* _check_data) or of one that left none
StampRead(c, t) ==
    IF c.exc # "" THEN c
    ELSE IF cache_available(c.s) THEN [c EXCEPT !.s._last_read = Some(t)]
    ELSE [c EXCEPT !.s._last_read = Some(t - c.s._cache_timeout + RetryDelay)]

\* handleNotification(handle, raw_data), called by the transport at time t
handleNotification(s, t, raw_data) ==
    IF raw_data = None THEN [s |-> s, exc |-> ""]
    ELSE IF Utf8Decode(raw_data[1]).exc # ""
    THEN [s |-> s, exc |-> Utf8Decode(raw_data[1]).exc]
    ELSE StampRead(_check_data([s EXCEPT !._cache =
             Some(Strip(Utf8Decode(raw_data[1]).text, {" ", "LF", "TAB"}))]), t)

\* ------------------------------------------------------- the operations

\* what the sensor answers to the reads of firmware_version: conn is "error" when
\* the connection or a read raises BluetoothBackendException
FwReads ==
    {[conn |-> "error", res_firmware |-> None, res_battery |-> None]} \cup
    [conn : {"ok"},
     res_firmware : {None, Some(<<"1", ".", "0">>)},
     res_battery : {None, Some(<<99>>), Some(<<255>>)}]

\* what the sensor answers to name()
NameReads ==
    {[conn |-> "error", name |-> None]} \cup
    [conn : {"ok"}, name : {None, Some(<<>>), Some(<<77, 74>>)}]

\* what connecting and wait_for_notification do: the connection fails, the wait
\* times out, or the transport calls handleNotification with raw_data
Notifs ==
    {[kind |-> "connect_error", raw_data |-> None], [kind |-> "timeout", raw_data |-> None]}
    \cup [kind : {"notify"}, raw_data : {None} \cup {Some(p) : p \in Payloads}]

\* FwStale with the fetch due already when exactly 24 hours have passed
FwStaleAtTwentyFourHours(s, t) ==
    s._firmware_version = None \/ t - FwMaxAge >= s._fw_last_read[1]

\* the test of firmware_version: fetch when no version is cached or the last fetch
\* is more than 24 hours old
FwStale(s, t) == s._firmware_version = None \/ t - FwMaxAge > s._fw_last_read[1]

\* res_firmware.decode("utf-8"), or None for no answer
DecodedFirmware(io) ==
    IF io.res_firmware = None THEN None ELSE Some(Utf8Decode(io.res_firmware[1]).text)

\* the assignments of firmware_version after its reads: s1 is the poller with the
\* fetch stamped; ord() takes one byte, which is its own number here
StoreFirmware(s1, io) ==
    IF io.res_firmware # None /\ Utf8Decode(io.res_firmware[1]).exc # ""
    THEN Res(s1, Utf8Decode(io.res_firmware[1]).exc, None, 1, 0, None)
    ELSE IF io.res_battery # None /\ Len(io.res_battery[1]) # 1
    THEN Res([s1 EXCEPT !._firmware_version = DecodedFirmware(io)], "TypeError",
             None, 1, 0, None)
    ELSE Res([s1 EXCEPT !._firmware_version = DecodedFirmware(io),
                        !.battery = IF io.res_battery = None THEN Some(0)
                                    ELSE Some(io.res_battery[1][1])],
             "", DecodedFirmware(io), 1, 0, None)

\* firmware_version with the fetch not stamped
firmware_versionUnstamped(s, t, io) ==
    IF s._firmware_version # None /\ s._fw_last_read = None
    THEN Res(s, "TypeError", None, 0, 0, None)
    ELSE IF ~FwStale(s, t) THEN Res(s, "", s._firmware_version, 0, 0, None)
    ELSE IF io.conn = "error"
    THEN Res(s, "BluetoothBackendException", None, 1, 0, None)
    ELSE StoreFirmware(s, io)

\* firmware_version() at time t
firmware_version(s, t, io) ==
    IF s._firmware_version # None /\ s._fw_last_read = None
    THEN Res(s, "TypeError", None, 0, 0, None)
    ELSE IF ~FwStale(s, t) THEN Res(s, "", s._firmware_version, 0, 0, None)
    ELSE IF io.conn = "error"
    THEN Res([s EXCEPT !._fw_last_read = Some(t)], "BluetoothBackendException",
             None, 1, 0, None)
    ELSE StoreFirmware([s EXCEPT !._fw_last_read = Some(t)], io)

\* the return of battery_level after firmware_version ended as f
ReturnBattery(f) == IF f.exc # "" THEN f ELSE [f EXCEPT !.value = f.s.battery]

\* battery_level() at time t
battery_level(s, t, io) == ReturnBattery(firmware_version(s, t, io))

\* chr(n) for the bytes of the sensor's name
Chr(n) == CASE n = 77 -> "M" [] n = 74 -> "J" [] OTHER -> "?"

\* "".join(chr(n) for n in name)
JoinChr(bytes) == [i \in 1..Len(bytes) |-> Chr(bytes[i])]

\* name()
name(s, io) ==
    IF io.conn = "error" THEN Res(s, "BluetoothBackendException", None, 1, 0, None)
    ELSE IF io.name = None \/ io.name = Some(<<>>)
    THEN Res(s, "BluetoothBackendException", None, 1, 0, None)
    ELSE Res(s, "", Some(JoinChr(io.name[1])), 1, 0, None)

\* the stamp of a failed read: the next read is due RetryDelay later
RetryStamp(s, t) == Some(t - s._cache_timeout + RetryDelay)

\* the notification wait of fill_cache, on the poller s
WaitForNotification(s, t, nio) ==
    IF nio.kind = "connect_error"
    THEN Res(s, "BluetoothBackendException", None, 1, 1, None)
    ELSE IF nio.kind = "timeout"
    THEN Res([s EXCEPT !._last_read = RetryStamp(s, t)], "", None, 1, 1, Some(nio))
    ELSE Res(handleNotification(s, t, nio.raw_data).s,
             handleNotification(s, t, nio.raw_data).exc, None, 1, 1, Some(nio))

\* AfterFirmware with a failed firmware fetch stamped as a good read
AfterFirmwareStampNow(f, t, nio) ==
    IF f.exc = "BluetoothBackendException"
    THEN [f EXCEPT !.s._last_read = Some(t), !.refreshes = 1]
    ELSE IF f.exc # "" THEN [f EXCEPT !.refreshes = 1]
    ELSE [WaitForNotification(f.s, t, nio) EXCEPT !.conns = @ + f.conns]

\* fill_cache after its call of firmware_version ended as f
AfterFirmware(f, t, nio) ==
    IF f.exc = "BluetoothBackendException"
    THEN [f EXCEPT !.s._last_read = RetryStamp(f.s, t), !.refreshes = 1]
    ELSE IF f.exc # "" THEN [f EXCEPT !.refreshes = 1]
    ELSE [WaitForNotification(f.s, t, nio) EXCEPT !.conns = @ + f.conns]

\* fill_cache() at time t
fill_cache(s, t, io, nio) == AfterFirmware(firmware_version(s, t, io), t, nio)

\* the test of parameter_value: refresh when the cache is not to be used, was never
\* read, or was read more than cache_timeout ago
CacheStale(s, t, read_cached) ==
    \/ read_cached = FALSE
    \/ s._last_read = None
    \/ t - s._cache_timeout > s._last_read[1]

\* the locked part of parameter_value: fill the cache or use it
CacheOrRefresh(s, t, read_cached, io, nio) ==
    IF CacheStale(s, t, read_cached) THEN fill_cache(s, t, io, nio)
    ELSE Res(s, "", None, 0, 0, None)

\* the return of parameter_value after the locked part ended as f
ReturnParameter(f, parameter) ==
    IF f.exc # "" THEN f
    ELSE IF ~cache_available(f.s) THEN [f EXCEPT !.exc = "BluetoothBackendException"]
    ELSE IF ParsedData[f.s._cache[1]].exc # ""
    THEN [f EXCEPT !.exc = ParsedData[f.s._cache[1]].exc]
    ELSE IF parameter \notin DOMAIN ParsedData[f.s._cache[1]].res
    THEN [f EXCEPT !.exc = "KeyError"]
    ELSE [f EXCEPT !.value = Some(ParsedData[f.s._cache[1]].res[parameter])]

\* the name parameter_value looks up in MiTempParameter for its battery test
BatteryMemberName == "MI_BATTERY"

\* parameter_value(parameter, read_cached) at time t
parameter_value(s, t, parameter, read_cached, io, nio) ==
    IF MiTempParameterAttr(BatteryMemberName).exc # ""
    THEN Res(s, MiTempParameterAttr(BatteryMemberName).exc, None, 0, 0, None)
    ELSE IF parameter = MiTempParameterAttr(BatteryMemberName).member
    THEN battery_level(s, t, io)
    ELSE ReturnParameter(CacheOrRefresh(s, t, read_cached, io, nio), parameter)

\* ------------------------------------------------------------ the machine

VARIABLES
    self,     \* the poller's fields
    now,      \* datetime.now()
    ret,      \* the last call: what was called and how it ended
    script,   \* how far the poller's calls so far follow test_everything
    parse,    \* a _parse_data() call on its own: the payload's items and the result
    pc,       \* where each thread is in the call it is making
    seen      \* the cache that the last call that reported a reading had read

vars == <<self, now, ret, script, parse, pc, seen>>

\* no _parse_data() call on its own is made
NoParse == [T |-> None, H |-> None, res |-> None]

Threads == 1..MaxThreads

\* every thread is between two calls
AllIdle == [th \in Threads |-> "idle"]

\* what a working sensor answers: every attribute read, and a valid notification
SensorFw == [conn |-> "ok", res_firmware |-> Some(<<"1", ".", "0">>), res_battery |-> Some(<<99>>)]

SensorName == [conn |-> "ok", name |-> Some(<<77, 74>>)]

SensorNotif == [kind |-> "notify", raw_data |-> Some(T_OK)]

\* the answers a call can get: a call that reads the firmware gets any answer to it
\* and a call that may reach the notification wait gets any outcome of it; for a
\* call that asks nothing, the working sensor's answers stand for them all
FwAnswers(s, t) ==
    IF s._firmware_version = None \/ s._fw_last_read = None \/ FwStale(s, t)
    THEN FwReads ELSE {SensorFw}

FillAnswers(s, t) ==
    {a \in FwAnswers(s, t) \X Notifs : a[1].conn = "error" => a[2] = SensorNotif}

ParameterAnswers(s, t, parameter, read_cached) ==
    IF MiTempParameterAttr(BatteryMemberName).exc # "" THEN {<<SensorFw, SensorNotif>>}
    ELSE IF parameter = MiTempParameterAttr(BatteryMemberName).member
    THEN FwAnswers(s, t) \X {SensorNotif}
    ELSE IF CacheStale(s, t, read_cached) THEN FillAnswers(s, t)
    ELSE {<<SensorFw, SensorNotif>>}

\* the calls of test_everything on its new poller, in order
TestCalls ==
    <<[op |-> "firmware_version", parameter |-> ""],
      [op |-> "name", parameter |-> ""],
      [op |-> "parameter_value", parameter |-> "TEMPERATURE"],
      [op |-> "parameter_value", parameter |-> "HUMIDITY"],
      [op |-> "parameter_value", parameter |-> "BATTERY"]>>

\* script: the number of calls of TestCalls made so far, when these are all the
\* poller's calls, the sensor worked and each returned a value; ScriptFailed when
\* the next of them returned none; ScriptOff once the calls are others
ScriptOff == 0 - 1

ScriptFailed == 0 - 2

ScriptNext(op, parameter, read_cached, working, r) ==
    IF /\ script \in 0..(Len(TestCalls) - 1)
       /\ TestCalls[script + 1] = [op |-> op, parameter |-> parameter]
       /\ read_cached
       /\ working
    THEN IF r.exc = "" /\ r.value # None THEN script + 1 ELSE ScriptFailed
    ELSE ScriptOff

\* the record of a call that ended as r
Called(op, parameter, read_cached, r) ==
    [op |-> op, parameter |-> parameter,
     read_cached |-> read_cached, exc |-> r.exc, value |-> r.value,
     conns |-> r.conns, refreshes |-> r.refreshes, notif |-> r.notif]

\* the call op(parameter, read_cached) ends as r
Ends(op, parameter, read_cached, working, r) ==
    /\ self' = r.s
    /\ ret' = Called(op, parameter, read_cached, r)
    /\ script' = ScriptNext(op, parameter, read_cached, working, r)
    /\ UNCHANGED <<now, parse, pc, seen>>

Init ==
    /\ \E cache_timeout \in CacheTimeouts : self = NewPoller(cache_timeout)
    /\ now = 0
    /\ ret = [op |-> "__init__", parameter |-> "", read_cached |-> TRUE,
              exc |-> "", value |-> None, conns |-> 0, refreshes |-> 0, notif |-> None]
    /\ script = 0
    /\ parse = NoParse
    /\ pc = AllIdle
    /\ seen = None

Tick ==
    /\ \E t \in TimePoints : t > now /\ now' = t
    /\ UNCHANGED <<self, ret, script, parse, pc, seen>>

Name ==
    \E io \in NameReads :
        /\ Ends("name", "", TRUE, io = SensorName, name(self, io))

FirmwareVersion ==
    \E io \in FwAnswers(self, now) :
        /\ Ends("firmware_version", "", TRUE, io = SensorFw, firmware_version(self, now, io))

FillCache ==
    \E a \in FillAnswers(self, now) :
        /\ Ends("fill_cache", "", TRUE, a = <<SensorFw, SensorNotif>>,
                fill_cache(self, now, a[1], a[2]))

ParameterValue ==
    \E parameter \in MiTempParameter, read_cached \in BOOLEAN :
    \E a \in ParameterAnswers(self, now, parameter, read_cached) :
        /\ Ends("parameter_value", parameter, read_cached, a = <<SensorFw, SensorNotif>>,
                parameter_value(self, now, parameter, read_cached, a[1], a[2]))

ClearCache ==
    /\ Ends("clear_cache", "", TRUE, TRUE, Res(clear_cache(self), "", None, 0, 0, None))

CacheAvailable ==
    /\ Ends("cache_available", "", TRUE, TRUE,
            Res(self, "", Some(cache_available(self)), 0, 0, None))

Next ==
    \/ Tick
    \/ Name
    \/ FirmwareVersion
    \/ FillCache
    \/ ParameterValue
    \/ ClearCache
    \/ CacheAvailable

Spec == Init /\ [][Next]_vars

\* ------------------------------------------------- _parse_data on its own

\* the items a payload is made of: the text after "T=" or "H=" with the number it
\* writes, and the items that are neither
Numbers ==
    {[text |-> <<"2", "5", ".", "6">>, val |-> [m |-> 256, e |-> 1]],
     [text |-> <<"-", "5">>, val |-> [m |-> 0 - 5, e |-> 0]],
     [text |-> <<"1", "0", "0", ".", "1">>, val |-> [m |-> 1001, e |-> 1]]}

OtherItems == {<<"X">>, <<"B", "=", "1">>, <<"T", "T", "=", "7">>}

\* " ".join(items)
RECURSIVE JoinSpace(_)
JoinSpace(items) ==
    IF items = <<>> THEN <<>>
    ELSE IF Len(items) = 1 THEN items[1]
    ELSE items[1] \o <<" ">> \o JoinSpace(Tail(items))

\* the orders in which the items of a payload come: "T=..", "H=.." and another
\* item, each present or not
ItemOrders ==
    {<<>>, <<"T">>, <<"H">>, <<"T", "H">>, <<"H", "T">>, <<"T", "H", "X">>,
     <<"X", "T", "H">>, <<"T", "X", "H">>, <<"X", "H">>, <<"T", "X">>, <<"X">>}

\* the text of the items in the order o, with the numbers t and h and the item x
ItemsText(o, t, h, x) ==
    JoinSpace([i \in 1..Len(o) |->
                  IF o[i] = "T" THEN <<"T", "=">> \o t.text
                  ELSE IF o[i] = "H" THEN <<"H", "=">> \o h.text
                  ELSE x])

\* text with the character c put in after its first k characters
InsertAt(text, k, c) == SubSeq(text, 1, k) \o <<c>> \o SubSeq(text, k + 1, Len(text))

\* n NUL characters
Padding(n) == [i \in 1..n |-> "NUL"]

\* a poller whose cache holds a payload of items, with a non-printable character
\* somewhere in it or none, and NUL padding at its end
InitParse ==
    /\ \E o \in ItemOrders, t \in Numbers, h \in Numbers, x \in OtherItems :
       \E k \in 0..(Len(ItemsText(o, t, h, x)) + 1), n \in 0..MaxPad :
           /\ self = [NewPoller(DefaultCacheTimeout) EXCEPT !._cache =
                         Some((IF k > Len(ItemsText(o, t, h, x))
                               THEN ItemsText(o, t, h, x)
                               ELSE InsertAt(ItemsText(o, t, h, x), k, "SOH"))
                              \o Padding(n))]
           /\ parse = [T |-> IF \E i \in 1..Len(o) : o[i] = "T" THEN Some(t.val) ELSE None,
                       H |-> IF \E i \in 1..Len(o) : o[i] = "H" THEN Some(h.val) ELSE None,
                       res |-> None]
    /\ now = 0
    /\ ret = [op |-> "__init__", parameter |-> "", read_cached |-> TRUE,
              exc |-> "", value |-> None, conns |-> 0, refreshes |-> 0, notif |-> None]
    /\ script = ScriptOff
    /\ pc = AllIdle
    /\ seen = None

\* self._parse_data()
ParseData ==
    /\ parse.res = None
    /\ parse' = [parse EXCEPT !.res = Some(_parse_data(self._cache[1]))]
    /\ UNCHANGED <<self, now, ret, script, pc, seen>>

NextParse == ParseData

SpecParse == InitParse /\ [][NextParse]_vars

\* ------------------------------------------------- the calls of threads

\* Threads call one poller at once.  A call of fill_cache() is made in steps, one
\* for each stretch of it that another thread's call can come between: the
\* firmware fetch (pc "idle" to "connect"), the connection and the wait up to the
\* assignment of the payload to _cache in handleNotification ("connect" to
\* "check"), _check_data() ("check" to "stamp"), and the stamp of the read.

InitThreads ==
    /\ \E cache_timeout \in CacheTimeouts : self = NewPoller(cache_timeout)
    /\ now = 0
    /\ ret = [op |-> "__init__", parameter |-> "", read_cached |-> TRUE,
              exc |-> "", value |-> None, conns |-> 0, refreshes |-> 0, notif |-> None]
    /\ script = ScriptOff
    /\ parse = NoParse
    /\ pc = AllIdle
    /\ seen = None

\* the call op of thread th ends as r
ThreadEnds(th, op, parameter, read_cached, r) ==
    /\ self' = r.s
    /\ ret' = Called(op, parameter, read_cached, r)
    /\ pc' = [pc EXCEPT ![th] = "idle"]

\* fill_cache() up to the return of firmware_version(): lines 66-72
ThreadFillCache(th) ==
    /\ pc[th] = "idle"
    /\ \E io \in FwAnswers(self, now) :
           IF firmware_version(self, now, io).exc # ""
           THEN ThreadEnds(th, "fill_cache", "", TRUE,
                           AfterFirmware(firmware_version(self, now, io), now, SensorNotif))
           ELSE /\ self' = firmware_version(self, now, io).s
                /\ pc' = [pc EXCEPT ![th] = "connect"]
                /\ UNCHANGED ret
    /\ UNCHANGED <<now, script, parse, seen>>

\* the notification reaches line 210 of handleNotification: it has a payload, and
\* the payload decodes
StoresPayload(nio) ==
    /\ nio.kind = "notify"
    /\ nio.raw_data # None
    /\ Utf8Decode(nio.raw_data[1]).exc = ""

\* fill_cache() from the connection to the payload's assignment to _cache: lines
\* 74-78 and 207-210, or to the call's end when no payload is stored
ThreadConnect(th) ==
    /\ pc[th] = "connect"
    /\ \E nio \in Notifs :
           IF StoresPayload(nio)
           THEN /\ self' = [self EXCEPT !._cache =
                               Some(Strip(Utf8Decode(nio.raw_data[1]).text, {" ", "LF", "TAB"}))]
                /\ pc' = [pc EXCEPT ![th] = "check"]
                /\ UNCHANGED ret
           ELSE ThreadEnds(th, "fill_cache", "", TRUE, WaitForNotification(self, now, nio))
    /\ UNCHANGED <<now, script, parse, seen>>

\* handleNotification's call of _check_data(): line 211
ThreadCheckData(th) ==
    /\ pc[th] = "check"
    /\ IF _check_data(self).exc # ""
       THEN ThreadEnds(th, "fill_cache", "", TRUE,
                       Res(_check_data(self).s, _check_data(self).exc, None, 1, 1, None))
       ELSE /\ self' = _check_data(self).s
            /\ pc' = [pc EXCEPT ![th] = "stamp"]
            /\ UNCHANGED ret
    /\ UNCHANGED <<now, script, parse, seen>>

\* the stamp of handleNotification and the return of fill_cache(): lines 212-216
ThreadStamp(th) ==
    /\ pc[th] = "stamp"
    /\ ThreadEnds(th, "fill_cache", "", TRUE,
                  Res(StampRead([s |-> self, exc |-> ""], now).s, "", None, 1, 1, None))
    /\ UNCHANGED <<now, script, parse, seen>>

\* cache_available()
ThreadCacheAvailable(th) ==
    /\ pc[th] = "idle"
    /\ ThreadEnds(th, "cache_available", "", TRUE,
                  Res(self, "", Some(cache_available(self)), 0, 0, None))
    /\ seen' = IF cache_available(self) THEN self._cache ELSE None
    /\ UNCHANGED <<now, script, parse>>

\* parameter_value(Temperature | Humidity): the call ends at line 127, before the
\* lock, the cache test and the read of the cache
ThreadParameterValue(th) ==
    /\ pc[th] = "idle"
    /\ MiTempParameterAttr(BatteryMemberName).exc # ""
    /\ \E parameter \in {"TEMPERATURE", "HUMIDITY"}, read_cached \in BOOLEAN :
           ThreadEnds(th, "parameter_value", parameter, read_cached,
                      Res(self, MiTempParameterAttr(BatteryMemberName).exc, None, 0, 0, None))
    /\ seen' = None
    /\ UNCHANGED <<now, script, parse>>

NextThreads ==
    \E th \in Threads :
        \/ ThreadFillCache(th)
        \/ ThreadConnect(th)
        \/ ThreadCheckData(th)
        \/ ThreadStamp(th)
        \/ ThreadCacheAvailable(th)
        \/ ThreadParameterValue(th)

SpecThreads == InitThreads /\ [][NextThreads]_vars

\* ------------------------------------------------------------- the claims

\* the step is a call of op (a call leaves the clock alone and records itself)
Step(op) == now' = now /\ ret'.op = op

\* the step is a call parameter_value(Temperature | Humidity, read_cached)
ReadingStep(read_cacheds) ==
    /\ Step("parameter_value")
    /\ ret'.parameter \in {"TEMPERATURE", "HUMIDITY"}
    /\ ret'.read_cached \in read_cacheds

\* the last call was a refresh notified with a payload that handleNotification
\* stored and stamped: self._last_read is the time of that successful read
ReadSucceeded ==
    /\ ret.op = "fill_cache"
    /\ ret.exc = ""
    /\ ret.notif # None
    /\ ret.notif[1].kind = "notify"
    /\ ret.notif[1].raw_data # None
    /\ cache_available(self)
    /\ self._last_read # None
    /\ self._last_read[1] <= now

\* the last call was a refresh whose notification wait timed out
ReadTimedOut ==
    /\ ret.op = "fill_cache"
    /\ ret.notif # None
    /\ ret.notif[1].kind = "timeout"

\* the time of that timed out read, from the stamp it left
TimedOutAt == self._last_read[1] + self._cache_timeout - RetryDelay

\* the humidity _parse_data finds in the payload raw, as handleNotification stores it
PayloadText(raw) == Strip(Utf8Decode(raw).text, {" ", "LF", "TAB"})

HumidityOver(raw, n) ==
    /\ Utf8Decode(raw).exc = ""
    /\ ParsedData[PayloadText(raw)].exc = ""
    /\ "HUMIDITY" \in DOMAIN ParsedData[PayloadText(raw)].res
    /\ FloatGt(ParsedData[PayloadText(raw)].res["HUMIDITY"], n)

\* no firmware version is cached, or the last fetch is more than 24 hours old
FirmwareDue ==
    \/ self._firmware_version = None
    \/ (self._fw_last_read # None /\ now - self._fw_last_read[1] > FwMaxAge)

\* the firmware fetch of the refresh this step made failed: the fetch was due, and
\* the one connection opened ended in the connection error
FirmwareFailed ==
    /\ FirmwareDue
    /\ ret'.refreshes > 0
    /\ ret'.conns = 1
    /\ ret'.exc = "BluetoothBackendException"

\* C1: with use_cache, a get_parameter(Temperature | Humidity) call made within
\* cache_ttl of a successful read returns the value decoded from the stored payload
\* and opens no connection.
C1_FreshCacheServed ==
    [][(ReadSucceeded /\ now - self._last_read[1] <= self._cache_timeout
           /\ ReadingStep({TRUE}))
       => /\ ret'.exc = ""
          /\ ParsedData[self._cache[1]].exc = ""
          /\ ret'.parameter \in DOMAIN ParsedData[self._cache[1]].res
          /\ ret'.value = Some(ParsedData[self._cache[1]].res[ret'.parameter])
          /\ ret'.conns = 0]_vars

\* C2: with use_cache, a get_parameter(Temperature | Humidity) call made cache_ttl
\* or more after the last successful read, the boundary included, triggers exactly
\* one refresh.
C2_StaleCacheRefreshedOnce ==
    [][(ReadSucceeded /\ now - self._last_read[1] >= self._cache_timeout
           /\ ReadingStep({TRUE}))
       => ret'.refreshes = 1]_vars

\* C3: a notification timeout at time t is not raised out of the refresh and sets
\* the read timestamp to t - cache_ttl + 300; a later get_parameter(Temperature |
\* Humidity) with use_cache attempts a refresh if and only if it is made more than
\* 300 seconds after t.
C3_TimeoutRetriedAfterDelay ==
    [][/\ ((Step("fill_cache") /\ ret'.notif # None /\ ret'.notif[1].kind = "timeout")
           => (/\ ret'.exc = ""
               /\ self'._last_read = Some(now - self._cache_timeout + RetryDelay)))
       /\ ((ReadTimedOut /\ ReadingStep({TRUE}))
           => (ret'.refreshes > 0 <=> now > TimedOutAt + RetryDelay))]_vars

\* the call is a refresh whose notification handler received a payload with a
\* decoded humidity above MaxHumidity and returned
HumidityOverHandled(r) ==
    /\ r.op = "fill_cache"
    /\ r.exc = ""
    /\ r.notif # None
    /\ r.notif[1].kind = "notify"
    /\ r.notif[1].raw_data # None
    /\ HumidityOver(r.notif[1].raw_data[1], MaxHumidity)

C5_ClearForcesRefresh ==
    [][/\ (Step("clear_cache") => ~cache_available(self'))
       /\ ((ret.op = "clear_cache" /\ ReadingStep(BOOLEAN)) => ret'.refreshes = 1)]_vars

\* C6: get_parameter(Battery) returns the battery level; it opens a connection
\* exactly when no firmware version is cached or the last fetch is more than 24
\* hours old, and leaves the cached reading and the read timestamp unchanged.
C6_BatteryByFirmwareTimerOnly ==
    [][(Step("parameter_value") /\ ret'.parameter = "BATTERY")
       => /\ ret'.exc \in {"", "BluetoothBackendException"}
          /\ (ret'.exc = "" => ret'.value = self'.battery)
          /\ (ret'.conns > 0 <=> FirmwareDue)
          /\ self'._cache = self._cache
          /\ self'._last_read = self._last_read]_vars

\* C7: on a new poller whose sensor answers every read and notifies a valid
\* payload, each call of test_everything (firmware version, name, Temperature,
\* Humidity, Battery) returns a value.
C7_TestEverythingReturnsValues == script # ScriptFailed

\* C8: a get_parameter(Temperature | Humidity) call whose firmware step does not
\* fail either returns the requested field of the reading cached after the
\* cache-or-refresh step, or fails with SensorUnavailable when none is cached.
C8_ValueOrUnavailable ==
    [][(ReadingStep(BOOLEAN) /\ ~FirmwareFailed)
       => \/ /\ cache_available(self')
             /\ ret'.exc = ""
             /\ ParsedData[self'._cache[1]].exc = ""
             /\ ret'.parameter \in DOMAIN ParsedData[self'._cache[1]].res
             /\ ret'.value = Some(ParsedData[self'._cache[1]].res[ret'.parameter])
          \/ /\ ~cache_available(self')
             /\ ret'.exc = "BluetoothBackendException"]_vars

\* C10: a cached reading decodes to a temperature and a humidity, and the humidity
\* is in [0, 100].
C10_CachedReadingValid ==
    cache_available(self)
    => /\ ParsedData[self._cache[1]].exc = ""
       /\ DOMAIN ParsedData[self._cache[1]].res = {"TEMPERATURE", "HUMIDITY"}
       /\ ~FloatLt(ParsedData[self._cache[1]].res["HUMIDITY"], 0)
       /\ ~FloatGt(ParsedData[self._cache[1]].res["HUMIDITY"], MaxHumidity)

\* C11: after a completed firmware / battery refresh the stored battery is an
\* integer in [0, 100], for every byte the battery attribute can return, and it is
\* 0 when the battery attribute read returns nothing.
C11_BatteryInRange ==
    /\ (self.battery # None => self.battery[1] \in 0..100)
    /\ \A io \in FwReads :
           (FirmwareDue /\ io.res_battery = None /\ firmware_version(self, now, io).exc = "")
           => firmware_version(self, now, io).s.battery = Some(0)

\* C12: firmware_version() opens a connection if and only if no firmware version
\* is cached or more than 24 hours have passed since the last fetch; otherwise it
\* returns the cached firmware version, opens no connection and leaves the
\* firmware version, the battery and the fetch timestamp unchanged.
C12_FirmwareFetchedWhenDue ==
    [][Step("firmware_version")
       => /\ (ret'.conns > 0 <=> FirmwareDue)
          /\ (~FirmwareDue
              => /\ ret'.exc = ""
                 /\ ret'.value = self._firmware_version
                 /\ self' = self)]_vars

\* C12, reached: exactly 24 hours after the fetch of time 0, firmware_version()
\* returned the cached version without a connection
C12_ServedAtTwentyFourHours ==
    /\ ret.op = "firmware_version"
    /\ ret.conns = 0
    /\ ret.value # None
    /\ ret.value = self._firmware_version
    /\ self._fw_last_read = Some(0)
    /\ now = FwMaxAge

\* the sensor's answer when the connection of firmware_version fails
FwConnectionError == [conn |-> "error", res_firmware |-> None, res_battery |-> None]

\* C13: when the firmware fetch fails at time t inside fill_cache(), whatever the
\* notification would have been, the refresh opens no second connection and waits
\* for no notification, the read timestamp becomes t - cache_timeout + 300 s, the
\* cached reading is left as it was, and the connection error is raised to the
\* caller.
C13_FirmwareFailureAbortsRefresh ==
    FirmwareDue
    => \A nio \in Notifs :
           /\ fill_cache(self, now, FwConnectionError, nio).exc = "BluetoothBackendException"
           /\ fill_cache(self, now, FwConnectionError, nio).conns = 1
           /\ fill_cache(self, now, FwConnectionError, nio).notif = None
           /\ fill_cache(self, now, FwConnectionError, nio).s._last_read
                  = Some(now - self._cache_timeout + RetryDelay)
           /\ fill_cache(self, now, FwConnectionError, nio).s._cache = self._cache

\* C13, reached: a refresh over a cached reading ended in the connection error of
\* its firmware fetch (stamped at now), with one connection, no notification, the
\* reading still cached and the read timestamp now - cache_timeout + 300 s
C13_RefreshAbortedOverCache ==
    /\ ret.op = "fill_cache"
    /\ ret.exc = "BluetoothBackendException"
    /\ ret.conns = 1
    /\ ret.notif = None
    /\ self._fw_last_read = Some(now)
    /\ self._firmware_version = None
    /\ cache_available(self)
    /\ self._last_read = Some(now - self._cache_timeout + RetryDelay)

\* the keys of the items the payload was made of
ItemKeys ==
    (IF parse.T # None THEN {"TEMPERATURE"} ELSE {})
    \cup (IF parse.H # None THEN {"HUMIDITY"} ELSE {})

\* C14: for a payload of the items "T=<x>" and "H=<y>" separated by single
\* spaces, with NUL padding at its end, non-printable characters in it and other
\* items or without them, _parse_data() returns a dict with the temperature x and
\* the humidity y and nothing else; a payload without the T (or H) item gives a
\* dict without that key and no error.
C14_ParseDataExact ==
    parse.res # None
    => /\ parse.res[1].exc = ""
       /\ DOMAIN parse.res[1].res = ItemKeys
       /\ (parse.T # None => parse.res[1].res["TEMPERATURE"] = parse.T[1])
       /\ (parse.H # None => parse.res[1].res["HUMIDITY"] = parse.H[1])

\* C14, reached: _parse_data() returned from a payload with both items and another
\* one, a non-printable character and NUL padding
C14_ParsedPaddedPayload ==
    /\ parse.res # None
    /\ parse.T = Some([m |-> 256, e |-> 1])
    /\ parse.H = Some([m |-> 1001, e |-> 1])
    /\ parse.res[1].res["TEMPERATURE"] = [m |-> 256, e |-> 1]
    /\ Len(self._cache[1]) > Len(T_HUM_OVER) + 3
    /\ \E i \in 1..Len(self._cache[1]) : self._cache[1][i] = "SOH"
    /\ self._cache[1][Len(self._cache[1])] = "NUL"

\* the cached text has a decoded humidity above n
HumidityOverText(text, n) ==
    /\ ParsedData[text].exc = ""
    /\ "HUMIDITY" \in DOMAIN ParsedData[text].res
    /\ FloatGt(ParsedData[text].res["HUMIDITY"], n)

\* C15: under every interleaving of a thread whose refresh handles a notification
\* with a humidity over 100 and threads that call get_parameter(Temperature |
\* Humidity) or has_cached_reading, no call returns a value decoded from that
\* payload and has_cached_reading never reports true because of it.
C15_HumidityOverNeverSeen ==
    /\ (seen # None => ~HumidityOverText(seen[1], MaxHumidity))
    /\ ((ret.op = "parameter_value" /\ ret.value # None /\ cache_available(self))
        => ~HumidityOverText(self._cache[1], MaxHumidity))

\* C16: a cached firmware version implies a fetch timestamp, so firmware_version
\* never compares the time with an absent timestamp; while there is no timestamp
\* no firmware version is cached, and that alone makes firmware_version() fetch.
C16_FirmwareCachedHasTimestamp ==
    /\ (self._firmware_version # None => self._fw_last_read # None)
    /\ (self._fw_last_read = None
        => /\ self._firmware_version = None
           /\ \A io \in FwReads :
                  /\ firmware_version(self, now, io).conns = 1
                  /\ firmware_version(self, now, io).exc # "TypeError")

\* C16, reached: firmware_version() fetched and cached a version, stamped at now
C16_FirmwareFetchedAndStamped ==
    /\ ret.op = "firmware_version"
    /\ ret.exc = ""
    /\ ret.conns = 1
    /\ ret.value # None
    /\ self._firmware_version = ret.value
    /\ self._fw_last_read = Some(now)

\* C18: a firmware / battery refresh that fails with a connection error leaves the
\* firmware version, the battery and the fetch timestamp unchanged, and the next
\* firmware_version() call attempts the fetch again.
C18_FailedFetchChangesNothing ==
    [][/\ ((Step("firmware_version") /\ ret'.exc = "BluetoothBackendException")
           => /\ self'._firmware_version = self._firmware_version
              /\ self'.battery = self.battery
              /\ self'._fw_last_read = self._fw_last_read)
       /\ ((ret.op = "firmware_version" /\ ret.exc = "BluetoothBackendException"
               /\ Step("firmware_version"))
           => ret'.conns = 1)]_vars

====
